---- MODULE Spec2Model ----
(***************************************************************************)
(* VeilChat / TibbyTalk: the group service (group key distribution and     *)
(* rotation on membership change) and the disappearing-message timer       *)
(* registry, as state machines.                                            *)
(*                                                                         *)
(* SpecGroup: one group conversation document in the remote store, and     *)
(* the asynchronous calls createGroup, addMember, removeMember, leaveGroup *)
(* and getGroupKey that read and write it.  Every await on the store is    *)
(* one step, so calls interleave between their reads and writes.           *)
(*                                                                         *)
(* Cryptography is symbolic: a ciphertext is a record naming the key it    *)
(* was made under, and decryption succeeds with the matching key only.     *)
(***************************************************************************)
EXTENDS Integers, Sequences, FiniteSets, TLC

(* ------------------------------ bounds -------------------------------- *)

\* number of addMember / removeMember / leaveGroup calls issued after createGroup
MaxCalls == 2

\* users with a record in the users collection (getUserById finds them)
Registered == {"ann", "bob", "cy"}

Users == Registered

\* the ids a caller may pass as a new member; "zed" has no record in the users
\* collection
Candidates == Users \cup {"zed"}

CallIds == 1..MaxCalls

(* --------------------------- symbolic crypto --------------------------- *)

\* the error a failed unwrap or AEAD decryption throws
DecryptionFailed == [error |-> "DecryptionFailed"]

\* null / undefined
Null == [null |-> TRUE]

PublicKeyOf(u) == [kind |-> "public", owner |-> u]

PrivateKeyOf(u) == [kind |-> "private", owner |-> u]

\* getUserById: the user's directory record, or null
NoUser == [found |-> FALSE]

GetUserById(u) ==
  IF u \in Registered
    THEN [found |-> TRUE, publicKey |-> PublicKeyOf(u), publicKeyId |-> u]
    ELSE NoUser

\* getPrivateKey: the local key store holds the caller's own private key
GetPrivateKey(u) == PrivateKeyOf(u)

ArrayBufferToBase64(bytes) == <<"b64", bytes>>

Base64ToArrayBuffer(s) == s[2]

\* subtle.encrypt({name: 'RSA-OAEP'}, publicKey, raw)
RsaOaepEncrypt(publicKey, raw) ==
  [alg |-> "RSA-OAEP", owner |-> publicKey.owner, raw |-> raw]

\* an unwrap that never rejects
RsaOaepDecryptAnyKey(privateKey, ct) == ct.raw

\* subtle.decrypt({name: 'RSA-OAEP'}, privateKey, ct): rejects under another key
RsaOaepDecrypt(privateKey, ct) ==
  IF ct.owner = privateKey.owner THEN ct.raw ELSE DecryptionFailed

\* subtle.encrypt / decrypt({name: 'AES-GCM', iv}, key, data)
AesGcmEncrypt(key, iv, data) == [alg |-> "AES-GCM", key |-> key, iv |-> iv, data |-> data]

AesGcmDecrypt(key, iv, ct) ==
  IF ct.key = key /\ ct.iv = iv THEN [text |-> ct.data] ELSE DecryptionFailed

EmptyMap == [u \in {} |-> 0]

MapPut(f, k, v) == [x \in DOMAIN f \cup {k} |-> IF x = k THEN v ELSE f[x]]

MapDelete(f, k) == [x \in DOMAIN f \ {k} |-> f[x]]

(* ---------------------------- text encoding ---------------------------- *)

\* the longest plaintext, in UTF-16 code units
MaxText == 2

\* a JavaScript string is a sequence of UTF-16 code units: "a" an ASCII letter,
\* "HI" / "LO" a high / low surrogate, "FEFF" the byte order mark U+FEFF; the
\* replacement character U+FFFD ("FFFD") appears in decoded text only
CodeUnits == {"a", "HI", "LO", "FEFF"}

Strings == UNION {[1..n -> CodeUnits] : n \in 0..MaxText}

\* new TextEncoder().encode(s): the UTF-8 bytes of s, scalar value by scalar
\* value; a surrogate pair is one scalar ("PAIR"), an unpaired surrogate is
\* encoded as U+FFFD
RECURSIVE TextEncode(_)
TextEncode(s) ==
  IF s = <<>> THEN <<>>
  ELSE IF Len(s) >= 2 /\ s[1] = "HI" /\ s[2] = "LO"
    THEN <<"PAIR">> \o TextEncode(SubSeq(s, 3, Len(s)))
  ELSE IF s[1] \in {"HI", "LO"}
    THEN <<"FFFD">> \o TextEncode(Tail(s))
  ELSE <<s[1]>> \o TextEncode(Tail(s))

\* the code units of one decoded scalar value
RECURSIVE Utf16(_)
Utf16(bytes) ==
  IF bytes = <<>> THEN <<>>
  ELSE (IF bytes[1] = "PAIR" THEN <<"HI", "LO">> ELSE <<bytes[1]>>)
         \o Utf16(Tail(bytes))

\* new TextDecoder().decode(bytes): ignoreBOM is false, so a leading byte order
\* mark is dropped
TextDecode(bytes) ==
  IF bytes # <<>> /\ bytes[1] = "FEFF" THEN Utf16(Tail(bytes)) ELSE Utf16(bytes)

(* ----------------------------- group keys ------------------------------ *)

\* generateGroupSymmetricKey: a fresh AES key and a fresh key id, from the
\* n-th draw of the random source
GenerateGroupSymmetricKey(n) == [key |-> [aes |-> n], keyId |-> [id |-> n]]

\* a bundle that wraps the key for the creator alone
CreateGroupKeyBundleForCreator(memberPublicKeys, creatorId, n) ==
  LET g == GenerateGroupSymmetricKey(n)
  IN  [keyBundle |->
         [keyId |-> g.keyId,
          encryptedKeys |->
            [u \in DOMAIN memberPublicKeys \cap {creatorId} |->
               ArrayBufferToBase64(
                 RsaOaepEncrypt(memberPublicKeys[u].publicKey, g.key))],
          createdBy |-> creatorId],
       groupKey |-> g.key]

\* createGroupKeyBundle(memberPublicKeys, creatorId), n the random draw
CreateGroupKeyBundle(memberPublicKeys, creatorId, n) ==
  LET g == GenerateGroupSymmetricKey(n)
  IN  [keyBundle |->
         [keyId |-> g.keyId,
          encryptedKeys |->
            [u \in DOMAIN memberPublicKeys |->
               ArrayBufferToBase64(
                 RsaOaepEncrypt(memberPublicKeys[u].publicKey, g.key))],
          createdBy |-> creatorId],
       groupKey |-> g.key]

\* rotateGroupKey: simply a new bundle for the remaining members
RotateGroupKey(remainingMemberKeys, creatorId, n) ==
  CreateGroupKeyBundle(remainingMemberKeys, creatorId, n)

\* decryptGroupKey(encryptedKey, privateKeyJwk)
DecryptGroupKey(encryptedKey, privateKey) ==
  RsaOaepDecrypt(privateKey, Base64ToArrayBuffer(encryptedKey))

\* addMemberToGroup(groupKey, newMemberPublicKey): wraps the existing key
AddMemberToGroup(groupKey, newMemberPublicKey) ==
  ArrayBufferToBase64(RsaOaepEncrypt(newMemberPublicKey, groupKey))

\* encryptGroupMessage(plaintext, groupKey, keyId), iv the fresh nonce
EncryptGroupMessage(plaintext, groupKey, keyId, iv) ==
  [encrypted |-> TRUE, version |-> "tt-e1",
   data |-> ArrayBufferToBase64(AesGcmEncrypt(groupKey, iv, TextEncode(plaintext))),
   iv |-> ArrayBufferToBase64(iv), keyId |-> keyId]

\* decryptGroupMessage(encryptedPayload, groupKey)
DecryptGroupMessage(payload, groupKey) ==
  LET decryptedBytes == AesGcmDecrypt(groupKey, Base64ToArrayBuffer(payload.iv),
                                      Base64ToArrayBuffer(payload.data))
  IN  IF decryptedBytes = DecryptionFailed THEN DecryptionFailed
      ELSE [text |-> TextDecode(decryptedBytes.text)]

(* --------------------------- direct messages --------------------------- *)

\* the crypto provider behind crypto.subtle: the browser's WebCrypto in the web
\* build, react-native-quick-crypto in the app
Providers == {"WebCrypto", "QuickCrypto"}

\* what a failed subtle.decrypt rejects with: WebCrypto's OperationError carries
\* no detail, the native provider's error names the failing primitive
SubtleError(provider, alg) ==
  [error |-> "OperationError",
   message |-> IF provider = "WebCrypto" THEN "" ELSE alg]

\* the r-th draw of the random source: a one-time AES key and a 12-byte iv
SymmetricKey(r) == [aes |-> <<"message", r>>]

Iv(r) == [iv |-> r]

\* encryptMessage(plaintext, recipientPublicKeyJwk), r the random draw
EncryptMessage(plaintext, recipientPublicKey, r) ==
  [encrypted |-> TRUE, version |-> "tt-e1",
   data |-> ArrayBufferToBase64(
              AesGcmEncrypt(SymmetricKey(r), Iv(r), TextEncode(plaintext))),
   key |-> ArrayBufferToBase64(RsaOaepEncrypt(recipientPublicKey, SymmetricKey(r))),
   iv |-> ArrayBufferToBase64(Iv(r))]

\* a decoder that returns the decrypted bytes undecoded
DecryptMessageRaw(encryptedPayload, privateKey, provider) ==
  LET symmetricKey ==
        RsaOaepDecrypt(privateKey, Base64ToArrayBuffer(encryptedPayload.key))
      decryptedBytes ==
        AesGcmDecrypt(symmetricKey, Base64ToArrayBuffer(encryptedPayload.iv),
                      Base64ToArrayBuffer(encryptedPayload.data))
  IN  IF symmetricKey = DecryptionFailed THEN SubtleError(provider, "RSA-OAEP")
      ELSE IF decryptedBytes = DecryptionFailed THEN SubtleError(provider, "AES-GCM")
      ELSE [text |-> decryptedBytes.text]

\* decryptMessage(encryptedPayload, privateKeyJwk): the text, or the error the
\* failing subtle.decrypt rejected with, passed on as it is
DecryptMessage(encryptedPayload, privateKey, provider) ==
  LET symmetricKey == RsaOaepDecrypt(privateKey,
                                     Base64ToArrayBuffer(encryptedPayload.key))
      decryptedBytes == AesGcmDecrypt(symmetricKey,
                                      Base64ToArrayBuffer(encryptedPayload.iv),
                                      Base64ToArrayBuffer(encryptedPayload.data))
  IN  IF symmetricKey = DecryptionFailed THEN SubtleError(provider, "RSA-OAEP")
      ELSE IF decryptedBytes = DecryptionFailed THEN SubtleError(provider, "AES-GCM")
      ELSE [text |-> TextDecode(decryptedBytes.text)]

(* ------------------------- conversation store -------------------------- *)

VARIABLES
  conv,        \* the group's conversation document (exists = FALSE before creation)
  keyHistory,  \* key ids stored under groupKeys/<group>/keys
  nextKey,     \* draws made from the random source so far, plus one
  cg,          \* the createGroup call
  calls,       \* the addMember / removeMember / leaveGroup calls
  cache        \* per user: the group keys the user has unwrapped (caller's key cache)

groupVars == <<conv, keyHistory, nextKey, cg, calls, cache>>

\* the timer registry (SpecTimer)
VARIABLES
  now,            \* Date.now()
  msgs,           \* the messages sent so far, each with its immutable expiresAt
  activeTimers,   \* message id -> timeout handle
  pending,        \* the host's armed timeouts: [handle, id, due, onExpire]
  nextHandle,     \* the handle the next setTimeout returns
  fired,          \* handles of the timeouts that have fired
  deleteRequested,\* <<conversationId, messageId>> of every deleteMessage request
  lastOp          \* the last call or firing and what it did synchronously

timerVars ==
  <<now, msgs, activeTimers, pending, nextHandle, fired, deleteRequested, lastOp>>

\* the deletion sink: deleteMessage requests and what became of them
VARIABLES
  deleteInFlight, \* <<conversationId, messageId>> of the requests not yet answered
  deleteFailed,   \* requests the store rejected (logged by the .catch handler)
  deletedDocs     \* message documents the store has deleted

sinkVars == <<deleteInFlight, deleteFailed, deletedDocs>>

\* messages in transit and what was last written to the remote store
VARIABLES
  wire,     \* the payload (or key bundle, or backup) last produced, and how
  result,   \* the last decoder call: who called it and what it returned or threw
  written   \* the documents the last operation wrote to the remote store

cryptoVars == <<wire, result, written>>

\* the admin roles of the group (SpecAdmin)
VARIABLES
  settled   \* how many returned or failed calls the callers have let go of

adminVars == <<settled>>

\* the direct conversations of one pair of users (SpecDirect)
VARIABLES
  directConvs,  \* the direct conversation documents in the store
  dcalls        \* the createDirectConversation calls

directVars == <<directConvs, dcalls>>

\* the device's key storage and the users collection (SpecKeys)
VARIABLES
  keychain,      \* the generic-password item of the identity service, or none
  localStorage,  \* the browser's storage: user id -> stored JWK text
  users,         \* the user documents published to the users collection
  keyOp          \* the last key storage or registration call and its outcome

keyVars == <<keychain, localStorage, users, keyOp>>

otherVars == <<adminVars, directVars, keyVars>>

vars == <<groupVars, timerVars, sinkVars, cryptoVars, otherVars>>

NoDoc ==
  [exists |-> FALSE, participants |-> {}, participantKeys |-> EmptyMap,
   adminIds |-> {}, groupKeyId |-> Null, groupKeyDistribution |-> EmptyMap]

IdleCall ==
  [op |-> "none", pc |-> "idle", actor |-> "", target |-> "",
   participantKeys |-> EmptyMap, groupKey |-> Null, wrapped |-> <<>>,
   alone |-> TRUE, wasParticipant |-> FALSE, threwAt |-> ""]

IdleCreate ==
  [pc |-> "idle", creator |-> "", participantKeys |-> EmptyMap,
   groupKey |-> Null]

InFlight(c) == calls[c].pc \notin {"idle", "done", "failed"}

CreateInFlight == cg.pc \notin {"idle", "done", "failed"}

\* getGroupKey(groupId, userId) on the document as read: the key, or null
GetGroupKey(doc, userId) ==
  IF ~doc.exists THEN Null
  ELSE IF userId \notin DOMAIN doc.groupKeyDistribution THEN Null
  ELSE DecryptGroupKey(doc.groupKeyDistribution[userId], GetPrivateKey(userId))

\* removeGroupMember's transaction: arrayRemove and delete participantKeys[memberId]
RemoveGroupMember(doc, memberId) ==
  [doc EXCEPT !.participants = @ \ {memberId},
              !.participantKeys = MapDelete(@, memberId)]

\* addGroupMember's update: arrayUnion and participantKeys.<id>
AddGroupMember(doc, newMemberId) ==
  LET user == GetUserById(newMemberId)
  IN  [doc EXCEPT !.participants = @ \cup {newMemberId},
                  !.participantKeys =
                     MapPut(@, newMemberId,
                            [publicKey |-> user.publicKey, keyId |-> user.publicKeyId])]

\* every user whose client sees the document (subscribeToConversations) can call
\* getGroupKey on it and keep the key it returns: the keys each user has unwrapped
ObserveKeys(doc, held) ==
  [u \in Candidates |->
     held[u] \cup (IF GetGroupKey(doc, u) \in {Null, DecryptionFailed}
                     THEN {} ELSE {GetGroupKey(doc, u)})]

\* a call that threw keeps nothing but its name and the await it threw at (and,
\* thrown after its participant removal, the member removed); a call that returned
\* keeps its arguments and its result
Thrown(call, at) ==
  [IdleCall EXCEPT !.op = call.op, !.pc = "failed", !.threwAt = at,
                   !.target = IF at = "rotate" THEN call.target ELSE ""]

Returned(call) ==
  [IdleCall EXCEPT !.op = call.op, !.pc = "done", !.actor = call.actor,
                   !.target = call.target, !.groupKey = call.groupKey,
                   !.alone = call.alone]

\* a call starts with its first read of the document: it overlaps every call in
\* flight at that moment, and they overlap it; an addMember call notes whether
\* its new member was a participant already
Begin(c, op, actor, target, ok, pc) ==
  LET busy == (\E d \in CallIds \ {c} : InFlight(d)) \/ CreateInFlight
      mine == [IdleCall EXCEPT !.op = op, !.actor = actor, !.target = target,
                               !.participantKeys =
                                  IF op = "removeMember" THEN conv.participantKeys
                                                         ELSE EmptyMap,
                               !.pc = pc, !.alone = ~busy,
                               !.wasParticipant =
                                  op = "addMember" /\ target \in conv.participants]
  IN  [d \in CallIds |->
         IF d = c THEN (IF ok THEN mine ELSE Thrown(mine, "read"))
         ELSE IF InFlight(d) /\ ok THEN [calls[d] EXCEPT !.alone = FALSE]
         ELSE calls[d]]

\* calls are issued in the order of their ids
MayBegin(c) ==
  /\ calls[c].pc = "idle"
  /\ \A d \in CallIds : d < c => calls[d].pc # "idle"

(* ------------------------------ createGroup ---------------------------- *)

\* createGroupConversation: the document is added with every member id as a
\* participant, and a participantKeys entry for each member getUserById finds
CreateGroupConversation(creatorId, memberIds) ==
  LET allMemberIds == {creatorId} \cup (memberIds \ {creatorId})
      found == {m \in allMemberIds : GetUserById(m).found}
  IN  [exists |-> TRUE,
       participants |-> allMemberIds,
       participantKeys |->
         [m \in found |-> [publicKey |-> GetUserById(m).publicKey,
                           keyId |-> GetUserById(m).publicKeyId]],
       adminIds |-> {creatorId},
       groupKeyId |-> Null,
       groupKeyDistribution |-> EmptyMap]

\* createGroup, first await: createGroupConversation adds the document
CreateGroupAdd(creatorId, memberIds) ==
  /\ cg.pc = "idle"
  /\ ~conv.exists
  /\ conv' = CreateGroupConversation(creatorId, memberIds)
  /\ cg' = [cg EXCEPT !.pc = "bundle", !.creator = creatorId,
                       !.participantKeys = conv'.participantKeys]
  /\ calls' = [d \in CallIds |->
                 IF InFlight(d) THEN [calls[d] EXCEPT !.alone = FALSE] ELSE calls[d]]
  /\ UNCHANGED <<keyHistory, nextKey, cache>>
  /\ UNCHANGED timerVars
  /\ UNCHANGED sinkVars
  /\ UNCHANGED cryptoVars
  /\ UNCHANGED otherVars

\* createGroup: createGroupKeyBundle over the returned participantKeys, then the
\* update of groupKeyId and groupKeyDistribution.  The write of the bundle to the
\* groupKeys collection that follows touches no conversation document and nothing
\* reads it back: it is taken with this step, and the call returns
CreateGroupDistribute ==
  /\ cg.pc = "bundle"
  /\ LET b == CreateGroupKeyBundle(cg.participantKeys, cg.creator, nextKey)
     IN  /\ conv' = [conv EXCEPT !.groupKeyId = b.keyBundle.keyId,
                                 !.groupKeyDistribution = b.keyBundle.encryptedKeys]
         /\ cg' = [cg EXCEPT !.pc = "done", !.groupKey = b.groupKey,
                              !.participantKeys = EmptyMap]
         /\ keyHistory' = keyHistory \cup {b.keyBundle.keyId}
  /\ nextKey' = nextKey + 1
  /\ cache' = ObserveKeys(conv', cache)
  /\ UNCHANGED calls
  /\ UNCHANGED timerVars
  /\ UNCHANGED sinkVars
  /\ UNCHANGED cryptoVars
  /\ UNCHANGED otherVars

(* ------------------------------- addMember ----------------------------- *)

\* addMember, first await: getConversation and the admin check
AddMemberRead(c, adminId, newMemberId) ==
  /\ MayBegin(c)
  /\ calls' = Begin(c, "addMember", adminId, newMemberId,
                    conv.exists /\ adminId \in conv.adminIds, "getKey")
  /\ UNCHANGED <<conv, keyHistory, nextKey, cg, cache>>
  /\ UNCHANGED timerVars
  /\ UNCHANGED sinkVars
  /\ UNCHANGED cryptoVars
  /\ UNCHANGED otherVars

\* addMember: getGroupKey (a second read of the document), getUserById of the
\* new member, and the wrapping of the current key for the new member
AddMemberGetKey(c) ==
  /\ calls[c].op = "addMember" /\ calls[c].pc = "getKey"
  /\ LET groupKey == GetGroupKey(conv, calls[c].actor)
         newMember == GetUserById(calls[c].target)
     IN  calls' = [calls EXCEPT ![c] =
           IF groupKey = Null \/ ~newMember.found
             THEN Thrown(@, "read")
             ELSE [@ EXCEPT !.pc = "addToConversation", !.groupKey = groupKey,
                            !.wrapped = AddMemberToGroup(groupKey, newMember.publicKey)]]
  /\ UNCHANGED <<conv, keyHistory, nextKey, cg, cache>>
  /\ UNCHANGED timerVars
  /\ UNCHANGED sinkVars
  /\ UNCHANGED cryptoVars
  /\ UNCHANGED otherVars

\* addMember: addMemberToConversation (participants and participantKeys)
AddMemberToConversation(c) ==
  /\ calls[c].op = "addMember" /\ calls[c].pc = "addToConversation"
  /\ conv' = AddGroupMember(conv, calls[c].target)
  /\ calls' = [calls EXCEPT ![c].pc = "distribute"]
  /\ UNCHANGED <<keyHistory, nextKey, cg, cache>>
  /\ UNCHANGED timerVars
  /\ UNCHANGED sinkVars
  /\ UNCHANGED cryptoVars
  /\ UNCHANGED otherVars

\* addMember: the update of groupKeyDistribution.<newMemberId>, and the call returns
AddMemberDistribute(c) ==
  /\ calls[c].op = "addMember" /\ calls[c].pc = "distribute"
  /\ conv' = [conv EXCEPT !.groupKeyDistribution =
                            MapPut(@, calls[c].target, calls[c].wrapped)]
  /\ calls' = [calls EXCEPT ![c] = Returned(@)]
  /\ cache' = ObserveKeys(conv', cache)
  /\ UNCHANGED <<keyHistory, nextKey, cg>>
  /\ UNCHANGED timerVars
  /\ UNCHANGED sinkVars
  /\ UNCHANGED cryptoVars
  /\ UNCHANGED otherVars

(* ------------------------------ removeMember --------------------------- *)

\* removeMember, first await: getConversation, the admin and last-admin checks
RemoveMemberRead(c, adminId, memberIdToRemove) ==
  /\ MayBegin(c)
  /\ calls' = Begin(c, "removeMember", adminId, memberIdToRemove,
                    /\ conv.exists
                    /\ adminId \in conv.adminIds
                    /\ ~(/\ memberIdToRemove \in conv.adminIds
                         /\ Cardinality(conv.adminIds) = 1),
                    "remove")
  /\ UNCHANGED <<conv, keyHistory, nextKey, cg, cache>>
  /\ UNCHANGED timerVars
  /\ UNCHANGED sinkVars
  /\ UNCHANGED cryptoVars
  /\ UNCHANGED otherVars

\* removeMember: removeMemberFromConversation (the transaction)
RemoveMemberRemove(c) ==
  /\ calls[c].op = "removeMember" /\ calls[c].pc = "remove"
  /\ conv' = RemoveGroupMember(conv, calls[c].target)
  /\ calls' = [calls EXCEPT ![c].pc = "rotate"]
  /\ UNCHANGED <<keyHistory, nextKey, cg, cache>>
  /\ UNCHANGED timerVars
  /\ UNCHANGED sinkVars
  /\ UNCHANGED cryptoVars
  /\ UNCHANGED otherVars

\* the remaining members' keys, from the participantKeys of the conversation as
\* read at the start of the call
RemainingParticipantKeysAll(participantKeys, memberIdToRemove) == participantKeys

RemainingParticipantKeys(participantKeys, memberIdToRemove) ==
  MapDelete(participantKeys, memberIdToRemove)

\* removeMember: rotateGroupKey for the remaining members, then the update of
\* groupKeyId and groupKeyDistribution.  The write of the new bundle to the
\* groupKeys collection is taken with this step, and the call returns the key
RemoveMemberRotate(c) ==
  /\ calls[c].op = "removeMember" /\ calls[c].pc = "rotate"
  /\ LET b == RotateGroupKey(RemainingParticipantKeys(calls[c].participantKeys,
                                                      calls[c].target),
                             calls[c].actor, nextKey)
     IN  /\ conv' = [conv EXCEPT !.groupKeyId = b.keyBundle.keyId,
                                 !.groupKeyDistribution = b.keyBundle.encryptedKeys]
         /\ calls' = [calls EXCEPT ![c] = Returned([@ EXCEPT !.groupKey = b.groupKey])]
         /\ keyHistory' = keyHistory \cup {b.keyBundle.keyId}
  /\ nextKey' = nextKey + 1
  /\ cache' = ObserveKeys(conv', cache)
  /\ UNCHANGED cg
  /\ UNCHANGED timerVars
  /\ UNCHANGED sinkVars
  /\ UNCHANGED cryptoVars
  /\ UNCHANGED otherVars

(* ------------------------------- leaveGroup ---------------------------- *)

\* leaveGroup, first await: getConversation and the last-admin check
LeaveGroupRead(c, userId) ==
  /\ MayBegin(c)
  /\ calls' = Begin(c, "leaveGroup", userId, userId,
                    /\ conv.exists
                    /\ ~(/\ userId \in conv.adminIds
                         /\ Cardinality(conv.adminIds) = 1
                         /\ Cardinality(conv.participants) > 1),
                    "remove")
  /\ UNCHANGED <<conv, keyHistory, nextKey, cg, cache>>
  /\ UNCHANGED timerVars
  /\ UNCHANGED sinkVars
  /\ UNCHANGED cryptoVars
  /\ UNCHANGED otherVars

\* leaveGroup: removeMemberFromConversation, and the call returns
LeaveGroupRemove(c) ==
  /\ calls[c].op = "leaveGroup" /\ calls[c].pc = "remove"
  /\ conv' = RemoveGroupMember(conv, calls[c].target)
  /\ calls' = [calls EXCEPT ![c] = Returned(@)]
  /\ UNCHANGED <<keyHistory, nextKey, cg, cache>>
  /\ UNCHANGED timerVars
  /\ UNCHANGED sinkVars
  /\ UNCHANGED cryptoVars
  /\ UNCHANGED otherVars

(* ------------------------- makeAdmin / removeAdmin --------------------- *)

\* makeAdmin, first await: getConversation, the admin and membership checks
MakeAdminRead(c, currentAdminId, newAdminId) ==
  /\ MayBegin(c)
  /\ calls' = Begin(c, "makeAdmin", currentAdminId, newAdminId,
                    /\ conv.exists
                    /\ currentAdminId \in conv.adminIds
                    /\ newAdminId \in conv.participants,
                    "update")
  /\ UNCHANGED <<conv, keyHistory, nextKey, cg, cache>>
  /\ UNCHANGED timerVars
  /\ UNCHANGED sinkVars
  /\ UNCHANGED cryptoVars
  /\ UNCHANGED otherVars

\* makeAdmin: the arrayUnion update of adminIds, and the call returns
MakeAdminUpdate(c) ==
  /\ calls[c].op = "makeAdmin" /\ calls[c].pc = "update"
  /\ conv' = [conv EXCEPT !.adminIds = @ \cup {calls[c].target}]
  /\ calls' = [calls EXCEPT ![c] = Returned(@)]
  /\ UNCHANGED <<keyHistory, nextKey, cg, cache>>
  /\ UNCHANGED timerVars
  /\ UNCHANGED sinkVars
  /\ UNCHANGED cryptoVars
  /\ UNCHANGED otherVars

\* removeAdmin, first await: getConversation, the admin and last-admin checks
RemoveAdminRead(c, currentAdminId, adminIdToRemove) ==
  /\ MayBegin(c)
  /\ calls' = Begin(c, "removeAdmin", currentAdminId, adminIdToRemove,
                    /\ conv.exists
                    /\ currentAdminId \in conv.adminIds
                    /\ Cardinality(conv.adminIds) # 1,
                    "update")
  /\ UNCHANGED <<conv, keyHistory, nextKey, cg, cache>>
  /\ UNCHANGED timerVars
  /\ UNCHANGED sinkVars
  /\ UNCHANGED cryptoVars
  /\ UNCHANGED otherVars

\* removeAdmin: the arrayRemove update of adminIds, and the call returns
RemoveAdminUpdate(c) ==
  /\ calls[c].op = "removeAdmin" /\ calls[c].pc = "update"
  /\ conv' = [conv EXCEPT !.adminIds = @ \ {calls[c].target}]
  /\ calls' = [calls EXCEPT ![c] = Returned(@)]
  /\ UNCHANGED <<keyHistory, nextKey, cg, cache>>
  /\ UNCHANGED timerVars
  /\ UNCHANGED sinkVars
  /\ UNCHANGED cryptoVars
  /\ UNCHANGED otherVars

\* calls a caller may let go of, beyond the MaxCalls it holds at a time
MaxSettled == 1

\* the caller lets go of a call that has returned or thrown and may issue
\* another one in its place
Settle(c) ==
  /\ calls[c].pc \in {"done", "failed"}
  /\ settled < MaxSettled
  /\ \A d \in CallIds : d > c => calls[d].pc = "idle"
  /\ settled' = settled + 1
  /\ calls' = [calls EXCEPT ![c] = IdleCall]
  /\ UNCHANGED <<conv, keyHistory, nextKey, cg, cache>>
  /\ UNCHANGED timerVars
  /\ UNCHANGED sinkVars
  /\ UNCHANGED cryptoVars
  /\ UNCHANGED <<directVars, keyVars>>

(* ------------------------------ store errors --------------------------- *)

\* the store request a call awaits rejects: the call throws at that await and
\* nothing after it runs
StoreRejects(c) ==
  /\ InFlight(c)
  /\ calls' = [calls EXCEPT ![c] = Thrown(@, @.pc)]
  /\ UNCHANGED <<conv, keyHistory, nextKey, cg, cache>>
  /\ UNCHANGED timerVars
  /\ UNCHANGED sinkVars
  /\ UNCHANGED cryptoVars
  /\ UNCHANGED otherVars

(* ===================== disappearing-message timers ===================== *)
(* SpecTimer: the process-wide activeTimers map, the host's queue of armed *)
(* timeouts, the clock, and the calls startMessageTimer,                   *)
(* cancelMessageTimer, clearAllTimers, cleanupExpiredMessages and          *)
(* initializeTimers, each one synchronous and so one step; a timeout fires *)
(* as a step of its own once the clock has reached its due time.           *)

\* the clock runs from 1 to MaxTime
MaxTime == 3

\* setTimeout handles are 1..MaxTimers
MaxTimers == 3

\* the longest batch passed to cleanupExpiredMessages / initializeTimers
MaxBatch == 2

MsgIds == {"m1", "m2"}

ConversationIds == {"c1"}

\* what an onExpire callback does when invoked
Callbacks == {"returns", "throws"}

\* expiresAt of a message sent without ttl (null: falsy)
NoExpiry == 0

NoOp ==
  [op |-> "none", ids |-> <<>>, invoked |-> <<>>, threw |-> FALSE,
   armed |-> {}, valid |-> <<>>, deleted |-> <<>>]

Message(id) == [id |-> id, expiresAt |-> msgs[id].expiresAt]

\* sendDirectMessage / sendGroupMessage: expiresAt is ttl ? Date.now() + ttl : null,
\* ttl counted in clock units
ExpiresAt(ttl, t) == IF ttl # 0 THEN t + ttl ELSE NoExpiry

SendMessage(id, ttl) ==
  /\ ~msgs[id].sent
  /\ msgs' = [msgs EXCEPT ![id] = [sent |-> TRUE, expiresAt |-> ExpiresAt(ttl, now)]]
  /\ lastOp' = [NoOp EXCEPT !.op = "send", !.ids = <<id>>]
  /\ UNCHANGED <<now, activeTimers, pending, nextHandle, fired, deleteRequested>>
  /\ UNCHANGED groupVars
  /\ UNCHANGED sinkVars
  /\ UNCHANGED cryptoVars
  /\ UNCHANGED otherVars

\* the registry and the host queue as one value, threaded through a call:
\* invoked lists the ids whose onExpire the call ran, threw says one of them threw
Registry ==
  [timers |-> activeTimers, pending |-> pending, nextHandle |-> nextHandle,
   invoked |-> <<>>, threw |-> FALSE, armed |-> {}]

\* startMessageTimer(message, onExpire) with Date.now() = t
StartTimerAlways(st, message, onExpire, t) ==
  IF message.expiresAt = NoExpiry THEN st
  ELSE IF message.expiresAt - t <= 0
    THEN [st EXCEPT !.invoked = Append(@, message.id), !.threw = (onExpire = "throws")]
    ELSE [st EXCEPT
            !.pending = @ \cup {[handle |-> st.nextHandle, id |-> message.id,
                                 due |-> message.expiresAt, onExpire |-> onExpire]},
            !.timers = MapPut(@, message.id, st.nextHandle),
            !.nextHandle = @ + 1,
            !.armed = @ \cup {message.id}]

StartTimer(st, message, onExpire, t) ==
  IF message.expiresAt = NoExpiry \/ message.id \in DOMAIN st.timers THEN st
  ELSE IF message.expiresAt - t <= 0
    THEN [st EXCEPT !.invoked = Append(@, message.id), !.threw = (onExpire = "throws")]
    ELSE [st EXCEPT
            !.pending = @ \cup {[handle |-> st.nextHandle, id |-> message.id,
                                 due |-> message.expiresAt, onExpire |-> onExpire]},
            !.timers = MapPut(@, message.id, st.nextHandle),
            !.nextHandle = @ + 1,
            !.armed = @ \cup {message.id}]

StartMessageTimer(id, onExpire) ==
  /\ msgs[id].sent
  /\ nextHandle <= MaxTimers
  /\ LET st == StartTimer(Registry, Message(id), onExpire, now)
     IN  /\ activeTimers' = st.timers
         /\ pending' = st.pending
         /\ nextHandle' = st.nextHandle
         /\ lastOp' = [NoOp EXCEPT !.op = "start", !.ids = <<id>>,
                                   !.invoked = st.invoked, !.threw = st.threw,
                                   !.armed = st.armed]
  /\ UNCHANGED <<now, msgs, fired, deleteRequested>>
  /\ UNCHANGED groupVars
  /\ UNCHANGED sinkVars
  /\ UNCHANGED cryptoVars
  /\ UNCHANGED otherVars

\* the timeout's callback: onExpire(), then activeTimers.delete(message.id); a
\* throwing onExpire ends the callback before the delete
TimeoutCallback(timer, timers) ==
  IF timer.onExpire = "throws" THEN timers ELSE MapDelete(timers, timer.id)

\* the host fires an armed timeout whose due time has come
FireTimerDeletes(timer) ==
  /\ timer \in pending
  /\ timer.due <= now
  /\ pending' = pending \ {timer}
  /\ activeTimers' = TimeoutCallback(timer, activeTimers)
  /\ fired' = fired \cup {timer.handle}
  /\ deleteRequested' = deleteRequested \cup {<<c, timer.id>> : c \in ConversationIds}
  /\ lastOp' = [NoOp EXCEPT !.op = "fire", !.ids = <<timer.id>>,
                            !.invoked = <<timer.id>>,
                            !.threw = (timer.onExpire = "throws")]
  /\ UNCHANGED <<now, msgs, nextHandle>>
  /\ UNCHANGED groupVars
  /\ UNCHANGED sinkVars
  /\ UNCHANGED cryptoVars
  /\ UNCHANGED otherVars

FireTimer(timer) ==
  /\ timer \in pending
  /\ timer.due <= now
  /\ pending' = pending \ {timer}
  /\ activeTimers' = TimeoutCallback(timer, activeTimers)
  /\ fired' = fired \cup {timer.handle}
  /\ lastOp' = [NoOp EXCEPT !.op = "fire", !.ids = <<timer.id>>,
                            !.invoked = <<timer.id>>,
                            !.threw = (timer.onExpire = "throws")]
  /\ UNCHANGED <<now, msgs, nextHandle, deleteRequested>>
  /\ UNCHANGED groupVars
  /\ UNCHANGED sinkVars
  /\ UNCHANGED cryptoVars
  /\ UNCHANGED otherVars

\* clearTimeout(handle)
ClearTimeout(queue, handle) == {t \in queue : t.handle # handle}

\* cancelMessageTimer(messageId)
CancelTimer(st, messageId) ==
  IF messageId \in DOMAIN st.timers
    THEN [st EXCEPT !.pending = ClearTimeout(@, st.timers[messageId]),
                    !.timers = MapDelete(@, messageId)]
    ELSE st

CancelMessageTimer(id) ==
  /\ LET st == CancelTimer(Registry, id)
     IN  /\ activeTimers' = st.timers
         /\ pending' = st.pending
  /\ lastOp' = [NoOp EXCEPT !.op = "cancel", !.ids = <<id>>]
  /\ UNCHANGED <<now, msgs, nextHandle, fired, deleteRequested>>
  /\ UNCHANGED groupVars
  /\ UNCHANGED sinkVars
  /\ UNCHANGED cryptoVars
  /\ UNCHANGED otherVars

\* clearAllTimers()
ClearAllTimers ==
  /\ activeTimers # EmptyMap
  /\ pending' = {t \in pending :
                   \A id \in DOMAIN activeTimers : activeTimers[id] # t.handle}
  /\ activeTimers' = EmptyMap
  /\ lastOp' = [NoOp EXCEPT !.op = "clearAll"]
  /\ UNCHANGED <<now, msgs, nextHandle, fired, deleteRequested>>
  /\ UNCHANGED groupVars
  /\ UNCHANGED sinkVars
  /\ UNCHANGED cryptoVars
  /\ UNCHANGED otherVars

\* getActiveTimerCount()
GetActiveTimerCount == Cardinality(DOMAIN activeTimers)

\* the clock advances
Tick ==
  /\ now < MaxTime
  /\ now' = now + 1
  /\ lastOp' = [NoOp EXCEPT !.op = "tick"]
  /\ UNCHANGED <<msgs, activeTimers, pending, nextHandle, fired, deleteRequested>>
  /\ UNCHANGED groupVars
  /\ UNCHANGED sinkVars
  /\ UNCHANGED cryptoVars
  /\ UNCHANGED otherVars

\* the batches a caller passes: lists of distinct messages it has loaded
Batches ==
  LET sent == {id \in MsgIds : msgs[id].sent}
  IN  {b \in UNION {[1..n -> sent] : n \in 1..MaxBatch} :
         \A i, j \in DOMAIN b : i # j => b[i] # b[j]}

\* cleanupExpiredMessages's test of one message at Date.now() = t
IsExpiredStrict(message, t) == message.expiresAt # NoExpiry /\ message.expiresAt < t

IsExpired(message, t) == message.expiresAt # NoExpiry /\ message.expiresAt <= t

\* cleanupExpiredMessages(messages, conversationId): the messages kept, and the
\* ids deleteMessage is called with, in order
CleanupExpiredRemembers(ids, t) ==
  LET Failed(id) == \E c \in ConversationIds : <<c, id>> \in deleteFailed
      Expired(id) == IsExpired(Message(id), t) /\ ~Failed(id)
      Valid(id) == ~IsExpired(Message(id), t)
  IN  [valid |-> SelectSeq(ids, Valid), deleted |-> SelectSeq(ids, Expired)]

CleanupExpired(ids, t) ==
  LET Expired(id) == IsExpired(Message(id), t)
      Valid(id) == ~IsExpired(Message(id), t)
  IN  [valid |-> SelectSeq(ids, Valid), deleted |-> SelectSeq(ids, Expired)]

CleanupExpiredMessages(ids, conversationId) ==
  /\ LET r == CleanupExpired(ids, now)
         requests == {<<conversationId, r.deleted[i]>> : i \in DOMAIN r.deleted}
     IN  /\ deleteRequested' = deleteRequested \cup requests
         /\ deleteInFlight' = deleteInFlight \cup requests
         /\ lastOp' = [NoOp EXCEPT !.op = "cleanup", !.ids = ids, !.valid = r.valid,
                                   !.deleted = r.deleted]
  /\ UNCHANGED <<now, msgs, activeTimers, pending, nextHandle, fired>>
  /\ UNCHANGED <<deleteFailed, deletedDocs>>
  /\ UNCHANGED groupVars
  /\ UNCHANGED cryptoVars
  /\ UNCHANGED otherVars

\* deleteMessage's store request is answered: the document is deleted, or the
\* promise rejects and the .catch handler of cleanupExpiredMessages logs it
DeleteMessageSettles(request, ok) ==
  /\ request \in deleteInFlight
  /\ deleteInFlight' = deleteInFlight \ {request}
  /\ deletedDocs' = IF ok THEN deletedDocs \cup {request} ELSE deletedDocs
  /\ deleteFailed' = IF ok THEN deleteFailed ELSE deleteFailed \cup {request}
  /\ lastOp' = [NoOp EXCEPT !.op = IF ok THEN "deleted" ELSE "deleteRejected",
                            !.ids = <<request[2]>>]
  /\ UNCHANGED <<now, msgs, activeTimers, pending, nextHandle, fired, deleteRequested>>
  /\ UNCHANGED groupVars
  /\ UNCHANGED cryptoVars
  /\ UNCHANGED otherVars

\* the values the successive Date.now() reads of one synchronous call may return:
\* the clock ticks at most once while the call runs
ClockReads(n) ==
  LET top == IF now < MaxTime THEN now + 1 ELSE MaxTime
  IN  {r \in [1..n -> now..top] : \A i \in 1..(n - 1) : r[i] <= r[i + 1]}

\* initializeTimers's loop body for one message: t1 is its own Date.now() read,
\* t2 the read inside startMessageTimer
InitializeOneMirrors(st, message, onMessageExpire, t1, t2) ==
  StartTimer(st, message, onMessageExpire, t2)

InitializeOne(st, message, onMessageExpire, t1, t2) ==
  IF message.expiresAt # NoExpiry /\ message.expiresAt > t1
    THEN StartTimer(st, message, onMessageExpire, t2)
    ELSE st

\* initializeTimers's loop from the i-th message on; a callback that throws ends it
RECURSIVE InitializeFrom(_, _, _, _, _)
InitializeFrom(st, ids, onMessageExpire, reads, i) ==
  IF i > Len(ids) \/ st.threw THEN st
  ELSE InitializeFrom(
         InitializeOne(st, Message(ids[i]), onMessageExpire,
                       reads[2 * i - 1], reads[2 * i]),
         ids, onMessageExpire, reads, i + 1)

InitializeTimers(ids, onMessageExpire) ==
  /\ nextHandle + Len(ids) - 1 <= MaxTimers
  /\ \E reads \in ClockReads(2 * Len(ids)) :
       LET st == InitializeFrom(Registry, ids, onMessageExpire, reads, 1)
       IN  /\ activeTimers' = st.timers
           /\ pending' = st.pending
           /\ nextHandle' = st.nextHandle
           /\ now' = reads[2 * Len(ids)]
           /\ lastOp' = [NoOp EXCEPT !.op = "initialize", !.ids = ids,
                                     !.invoked = st.invoked, !.threw = st.threw,
                                     !.armed = st.armed]
  /\ UNCHANGED <<msgs, fired, deleteRequested>>
  /\ UNCHANGED groupVars
  /\ UNCHANGED sinkVars
  /\ UNCHANGED cryptoVars
  /\ UNCHANGED otherVars

TimerInit ==
  /\ now = 1
  /\ msgs = [id \in MsgIds |-> [sent |-> FALSE, expiresAt |-> NoExpiry]]
  /\ activeTimers = EmptyMap
  /\ pending = {}
  /\ nextHandle = 1
  /\ fired = {}
  /\ deleteRequested = {}
  /\ lastOp = NoOp

TimerNext ==
  \/ \E id \in MsgIds, ttl \in 0..MaxTime : now + ttl <= MaxTime /\ SendMessage(id, ttl)
  \/ \E id \in MsgIds, cb \in Callbacks : StartMessageTimer(id, cb)
  \/ \E t \in pending : FireTimer(t)
  \/ \E id \in MsgIds : CancelMessageTimer(id)
  \/ ClearAllTimers
  \/ \E ids \in Batches, c \in ConversationIds : CleanupExpiredMessages(ids, c)
  \/ \E ids \in Batches, cb \in Callbacks : InitializeTimers(ids, cb)
  \/ Tick

SinkInit ==
  /\ deleteInFlight = {}
  /\ deleteFailed = {}
  /\ deletedDocs = {}

\* the cleanup path alone: messages are sent, the clock advances,
\* cleanupExpiredMessages is called, and the store answers its deletion requests
CleanupNext ==
  \/ \E id \in MsgIds, ttl \in 0..MaxTime : now + ttl <= MaxTime /\ SendMessage(id, ttl)
  \/ \E ids \in Batches, c \in ConversationIds : CleanupExpiredMessages(ids, c)
  \/ \E r \in deleteInFlight, ok \in BOOLEAN : DeleteMessageSettles(r, ok)
  \/ Tick

GroupInit ==
  /\ conv = NoDoc
  /\ keyHistory = {}
  /\ nextKey = 1
  /\ cg = IdleCreate
  /\ calls = [c \in CallIds |-> IdleCall]
  /\ cache = [u \in Candidates |-> {}]

\* the users are interchangeable: the creator is always the same one
Creator == "ann"

GroupNext ==
  \/ \E ms \in SUBSET (Candidates \ {Creator}) : CreateGroupAdd(Creator, ms)
  \/ CreateGroupDistribute
  \/ \E c \in CallIds, a \in Users, x \in Candidates : AddMemberRead(c, a, x)
  \/ \E c \in CallIds : AddMemberGetKey(c)
  \/ \E c \in CallIds : AddMemberToConversation(c)
  \/ \E c \in CallIds : AddMemberDistribute(c)
  \/ \E c \in CallIds, a \in Users, x \in Candidates : RemoveMemberRead(c, a, x)
  \/ \E c \in CallIds : RemoveMemberRemove(c)
  \/ \E c \in CallIds : RemoveMemberRotate(c)
  \/ \E c \in CallIds, u \in Users : LeaveGroupRead(c, u)
  \/ \E c \in CallIds : LeaveGroupRemove(c)
  \/ \E c \in CallIds : StoreRejects(c)


AdminInit == settled = 0

\* the admin roles alone: a group is created, members are promoted, demoted
\* and removed, and members leave
AdminNext ==
  \/ \E ms \in SUBSET (Users \ {Creator}) : CreateGroupAdd(Creator, ms)
  \/ CreateGroupDistribute
  \/ \E c \in CallIds, a \in Users, x \in Users : MakeAdminRead(c, a, x)
  \/ \E c \in CallIds : MakeAdminUpdate(c)
  \/ \E c \in CallIds, a \in Users, x \in Users : RemoveAdminRead(c, a, x)
  \/ \E c \in CallIds : RemoveAdminUpdate(c)
  \/ \E c \in CallIds, a \in Users, x \in Users : RemoveMemberRead(c, a, x)
  \/ \E c \in CallIds : RemoveMemberRemove(c)
  \/ \E c \in CallIds : RemoveMemberRotate(c)
  \/ \E c \in CallIds, u \in Users : LeaveGroupRead(c, u)
  \/ \E c \in CallIds : LeaveGroupRemove(c)
  \/ \E c \in CallIds : Settle(c)

(* ======================== direct conversations ========================= *)
(* SpecDirect: createDirectConversation calls, each one a lookup, two user  *)
(* reads and an add, interleaved at their awaits.                           *)

\* createDirectConversation calls in one behaviour
MaxDirectCalls == 2

DirectCallIds == 1..MaxDirectCalls

IdleDirect ==
  [pc |-> "idle", currentUserId |-> "", otherUserId |-> "", id |-> 0]

\* findDirectConversation(userId1, userId2): the direct conversations whose
\* participants contain both; the first of them in the snapshot is returned
FindDirectConversation(docs, userId1, userId2) ==
  {d \in docs : userId1 \in d.participants /\ userId2 \in d.participants}

\* createDirectConversation, first await: an existing conversation is
\* returned, or the call goes on to read the two users
CreateDirectFind(c, currentUserId, otherUserId) ==
  /\ dcalls[c].pc = "idle"
  /\ \A d \in DirectCallIds : d < c => dcalls[d].pc # "idle"
  /\ LET existing == FindDirectConversation(directConvs, currentUserId, otherUserId)
         mine == [IdleDirect EXCEPT !.currentUserId = currentUserId,
                                    !.otherUserId = otherUserId]
     IN  \/ /\ existing = {}
            /\ dcalls' = [dcalls EXCEPT ![c] = [mine EXCEPT !.pc = "users"]]
         \/ \E doc \in existing :
              dcalls' = [dcalls EXCEPT ![c] = [mine EXCEPT !.pc = "done", !.id = doc.id]]
  /\ UNCHANGED directConvs
  /\ UNCHANGED <<groupVars, timerVars, sinkVars, cryptoVars>>
  /\ UNCHANGED <<adminVars, keyVars>>

\* createDirectConversation: the two getUserById reads; a missing user throws
CreateDirectGetUsers(c) ==
  /\ dcalls[c].pc = "users"
  /\ dcalls' = [dcalls EXCEPT ![c].pc =
                  IF /\ GetUserById(dcalls[c].currentUserId).found
                     /\ GetUserById(dcalls[c].otherUserId).found
                    THEN "add" ELSE "failed"]
  /\ UNCHANGED directConvs
  /\ UNCHANGED <<groupVars, timerVars, sinkVars, cryptoVars>>
  /\ UNCHANGED <<adminVars, keyVars>>

\* createDirectConversation: the add under a fresh document id, and the call
\* returns the new conversation
CreateDirectAdd(c) ==
  /\ dcalls[c].pc = "add"
  /\ LET id == Cardinality(directConvs) + 1
     IN  /\ directConvs' = directConvs \cup
                             {[id |-> id,
                               participants |-> {dcalls[c].currentUserId,
                                                 dcalls[c].otherUserId}]}
         /\ dcalls' = [dcalls EXCEPT ![c].pc = "done", ![c].id = id]
  /\ UNCHANGED <<groupVars, timerVars, sinkVars, cryptoVars>>
  /\ UNCHANGED <<adminVars, keyVars>>

DirectInit ==
  /\ directConvs = {}
  /\ dcalls = [c \in DirectCallIds |-> IdleDirect]

DirectNext ==
  \/ \E c \in DirectCallIds, a, b \in Candidates : CreateDirectFind(c, a, b)
  \/ \E c \in DirectCallIds : CreateDirectGetUsers(c)
  \/ \E c \in DirectCallIds : CreateDirectAdd(c)

(* ------------------------------ key backup ----------------------------- *)

\* the PBKDF2 iteration count of a bundle
Iterations == 100000

\* key ids of a key map, each a string of one code unit
KeyIds == {"a", "HI", "FEFF"}

BackedUpKeys == {PrivateKeyOf("ann"), PrivateKeyOf("bob")}

\* key maps (key id -> private key JWK)
KeyMaps == UNION {[ids -> BackedUpKeys] : ids \in SUBSET KeyIds}

\* passwords, as code unit sequences
Password(n, last) == [i \in 1..n |-> IF i = n THEN last ELSE "a"]

Passwords ==
  {<<>>, Password(7, "a"), Password(8, "a"), Password(8, "HI"), Password(8, "LO"),
   Password(9, "a")}

Salt(r) == [salt |-> r]

\* the text JSON.stringify writes for a JWK, and JSON.parse's reading of it
JwkTexts ==
  [ann |-> "{jwk ann}", bob |-> "{jwk bob}", cy |-> "{jwk cy}", zed |-> "{jwk zed}"]

JwkText(k) == JwkTexts[k.owner]

ParseJwk(t) == PrivateKeyOf(CHOOSE u \in DOMAIN JwkTexts : JwkTexts[u] = t)

\* JSON.stringify writes an unpaired surrogate of a property name as an
\* escape sequence of ASCII characters; JSON.parse reads the escape back
Escape(unit) ==
  IF unit = "HI" THEN "\\uD800" ELSE IF unit = "LO" THEN "\\uDC00" ELSE unit

Unescape(token) ==
  IF token = "\\uD800" THEN "HI" ELSE IF token = "\\uDC00" THEN "LO" ELSE token

RECURSIVE JsonMembersRaw(_, _)
JsonMembersRaw(K, ids) ==
  IF ids = {} THEN <<>>
  ELSE LET id == CHOOSE x \in ids : TRUE
       IN  <<id, JwkText(K[id])>> \o JsonMembersRaw(K, ids \ {id})

\* a serialisation that writes property names unescaped
JsonStringifyRaw(K) == <<"{">> \o JsonMembersRaw(K, DOMAIN K) \o <<"}">>

RECURSIVE JsonMembers(_, _)
JsonMembers(K, ids) ==
  IF ids = {} THEN <<>>
  ELSE LET id == CHOOSE x \in ids : TRUE
       IN  <<Escape(id), JwkText(K[id])>> \o JsonMembers(K, ids \ {id})

\* JSON.stringify(privateKeys): the text as a sequence of code units, a
\* property name or a JWK standing for its characters
JsonStringify(K) == <<"{">> \o JsonMembers(K, DOMAIN K) \o <<"}">>

IsJsonObjectText(text) ==
  /\ Len(text) >= 2
  /\ text[1] = "{" /\ text[Len(text)] = "}"
  /\ (Len(text) - 2) % 2 = 0

\* JSON.parse(keysJson) of an object text: of two equal names the last wins
JsonParse(text) ==
  LET n == (Len(text) - 2) \div 2
      name(i) == Unescape(text[2 * i])
      last(id) == CHOOSE i \in 1..n :
                    /\ name(i) = id
                    /\ \A j \in 1..n : name(j) = id => j <= i
  IN  [id \in {name(i) : i \in 1..n} |-> ParseJwk(text[2 * last(id) + 1])]

\* deriveKeyFromPassword(password, salt, iterations): PBKDF2 over the UTF-8
\* bytes of the password
DeriveKeyFromPassword(password, salt, iterations) ==
  [aes |-> <<"pbkdf2", TextEncode(password), salt, iterations>>]

BackupError(message) == [error |-> "Error", message |-> message]

\* an export that accepts passwords one code unit shorter
ExportPrivateKeysMin7(privateKeys, password, r) ==
  IF password = <<>> \/ Len(password) < 7
    THEN BackupError("Password must be at least 8 characters")
  ELSE LET encryptionKey == DeriveKeyFromPassword(password, Salt(r), Iterations)
           keysData == TextEncode(JsonStringify(privateKeys))
           encryptedData == AesGcmEncrypt(encryptionKey, Iv(r), keysData)
       IN  [version |-> "1.0", algorithm |-> "PBKDF2-AES-GCM-256",
            iterations |-> Iterations,
            salt |-> ArrayBufferToBase64(Salt(r)),
            iv |-> ArrayBufferToBase64(Iv(r)),
            ciphertext |-> ArrayBufferToBase64(encryptedData)]

\* the values exportPrivateKeys has drawn from the random source when it
\* returns or throws: none before the password check, then salt and iv
ExportDraws(password) ==
  IF password = <<>> \/ Len(password) < 8 THEN 0 ELSE 2

\* exportPrivateKeys(privateKeys, password), r the random draw of salt and iv
ExportPrivateKeys(privateKeys, password, r) ==
  IF password = <<>> \/ Len(password) < 8
    THEN BackupError("Password must be at least 8 characters")
  ELSE LET encryptionKey == DeriveKeyFromPassword(password, Salt(r), Iterations)
           keysData == TextEncode(JsonStringify(privateKeys))
           encryptedData == AesGcmEncrypt(encryptionKey, Iv(r), keysData)
       IN  [version |-> "1.0", algorithm |-> "PBKDF2-AES-GCM-256",
            iterations |-> Iterations,
            salt |-> ArrayBufferToBase64(Salt(r)),
            iv |-> ArrayBufferToBase64(Iv(r)),
            ciphertext |-> ArrayBufferToBase64(encryptedData)]

\* an import that reports the failing step
ImportPrivateKeysVerbose(encryptedBundle, password) ==
  IF "ciphertext" \notin DOMAIN encryptedBundle
    THEN BackupError("Invalid key bundle format")
  ELSE IF password = <<>> THEN BackupError("Password is required")
  ELSE IF encryptedBundle.version # "1.0"
    THEN BackupError("Unsupported key bundle version")
  ELSE LET salt == Base64ToArrayBuffer(encryptedBundle.salt)
           iv == Base64ToArrayBuffer(encryptedBundle.iv)
           ciphertext == Base64ToArrayBuffer(encryptedBundle.ciphertext)
           decryptionKey ==
             DeriveKeyFromPassword(password, salt, encryptedBundle.iterations)
           decryptedData == AesGcmDecrypt(decryptionKey, iv, ciphertext)
       IN  IF decryptedData = DecryptionFailed
             THEN BackupError(IF ciphertext.key # decryptionKey THEN "Invalid password"
                              ELSE "Corrupted key bundle")
             ELSE [keys |-> JsonParse(TextDecode(decryptedData.text))]

\* the iteration count importPrivateKeys derives the key with:
\* encryptedBundle.iterations || 100000
ImportIterations(encryptedBundle) ==
  IF encryptedBundle.iterations = 0 THEN Iterations ELSE encryptedBundle.iterations

\* importPrivateKeys(encryptedBundle, password)
ImportPrivateKeys(encryptedBundle, password) ==
  IF "ciphertext" \notin DOMAIN encryptedBundle
    THEN BackupError("Invalid key bundle format")
  ELSE IF password = <<>> THEN BackupError("Password is required")
  ELSE IF encryptedBundle.version # "1.0"
    THEN BackupError("Unsupported key bundle version")
  ELSE LET salt == Base64ToArrayBuffer(encryptedBundle.salt)
           iv == Base64ToArrayBuffer(encryptedBundle.iv)
           ciphertext == Base64ToArrayBuffer(encryptedBundle.ciphertext)
           iterations == ImportIterations(encryptedBundle)
           decryptionKey == DeriveKeyFromPassword(password, salt, iterations)
           decryptedData == AesGcmDecrypt(decryptionKey, iv, ciphertext)
           keysJson == TextDecode(decryptedData.text)
       IN  IF decryptedData = DecryptionFailed \/ ~IsJsonObjectText(keysJson)
             THEN BackupError("Invalid password or corrupted key bundle")
             ELSE [keys |-> JsonParse(keysJson)]

(* ------------------------------ key storage ---------------------------- *)
(* SpecKeys: the device's storage of identity private keys, in the React    *)
(* Native build the keychain item of the identity service, in the web build *)
(* localStorage, and registerUser, which stores a key and publishes the     *)
(* user document.                                                           *)

Builds == {"native", "web"}

\* the users whose keys the device holds
KeyOwners == {k.owner : k \in BackedUpKeys}

\* getPrivateKey(userId) on the given storage contents
ReadPrivateKey(build, item, storage, userId) ==
  IF build = "native"
    THEN IF item # Null /\ item.username = userId
           THEN ParseJwk(item.password) ELSE Null
    ELSE IF userId \in DOMAIN storage THEN ParseJwk(storage[userId]) ELSE Null

GetStoredPrivateKey(build, userId) ==
  ReadPrivateKey(build, keychain, localStorage, userId)

\* what getPrivateKey returns for every user
StoredKeys(build) == [u \in Candidates |-> GetStoredPrivateKey(build, u)]

\* Keychain.setGenericPassword(userId, text, {service}): the service's one
\* item is replaced
SetGenericPassword(item, userId, text) ==
  [username |-> userId, password |-> text]

\* storePrivateKey(userId, privateKeyJwk); ok is whether the storage accepted
\* the write (a failure is caught and reported as false)
StoreKey(build, userId, privateKeyJwk, ok) ==
  /\ keychain' = IF build = "native" /\ ok
                   THEN SetGenericPassword(keychain, userId, JwkText(privateKeyJwk))
                   ELSE keychain
  /\ localStorage' = IF build = "web" /\ ok
                       THEN MapPut(localStorage, userId, JwkText(privateKeyJwk))
                       ELSE localStorage

StorePrivateKey(build, userId, privateKeyJwk, ok) ==
  /\ StoreKey(build, userId, privateKeyJwk, ok)
  /\ keyOp' = [op |-> "store", build |-> build, user |-> userId,
               key |-> privateKeyJwk, ok |-> ok, before |-> StoredKeys(build)]
  /\ UNCHANGED users
  /\ UNCHANGED <<groupVars, timerVars, sinkVars, cryptoVars>>
  /\ UNCHANGED <<adminVars, directVars>>

\* deletePrivateKey: resetGenericPassword of the service in the native build
\* (the call takes no user id), removeItem of the user's entry in the web build
DeletePrivateKey(build, userId) ==
  /\ keychain' = IF build = "native" THEN Null ELSE keychain
  /\ localStorage' = IF build = "web" THEN MapDelete(localStorage, userId)
                     ELSE localStorage
  /\ keyOp' = [op |-> "delete", build |-> build, user |-> userId,
               key |-> Null, ok |-> TRUE, before |-> StoredKeys(build)]
  /\ UNCHANGED users
  /\ UNCHANGED <<groupVars, timerVars, sinkVars, cryptoVars>>
  /\ UNCHANGED <<adminVars, directVars>>

KeyInit ==
  /\ keychain = Null
  /\ localStorage = EmptyMap
  /\ users = {}
  /\ keyOp = [op |-> "none"]

(* ================= messages in transit and remote writes ================ *)
(* SpecCrypto: one payload at a time is produced by a sender, possibly      *)
(* altered in the store, and handed to a decoder; every operation records   *)
(* the documents it writes to the remote store.  The group operations run   *)
(* here from start to end, one after the other.  The operations keep no     *)
(* state between two messages, so a behaviour follows one message.          *)

\* draws of the random source
MaxDraws == 2

Draws == 1..MaxDraws

NoWire == [kind |-> "none"]

NoResult == [op |-> "none"]

\* a document written to the remote store: its JWK-valued fields and its
\* base64-valued fields
Write(collection, jwk, base64) ==
  [collection |-> collection, jwk |-> jwk, base64 |-> base64]

\* the message document of sendDirectMessage / sendGroupMessage
MessageWrite(type, encryptedContent) ==
  Write("messages", {},
        {encryptedContent.data, encryptedContent.iv}
          \cup (IF type = "direct" THEN {encryptedContent.key} ELSE {}))

\* the conversation document of createDirectConversation / createGroupConversation
\* and the update of addGroupMember
ConversationWrite(participantKeys) ==
  Write("conversations", {participantKeys[u].publicKey : u \in DOMAIN participantKeys}, {})

\* the update of groupKeyId / groupKeyDistribution, and the key bundle document
DistributionWrite(collection, encryptedKeys) ==
  Write(collection, {}, {encryptedKeys[u] : u \in DOMAIN encryptedKeys})

\* generateUserKeyPair for user u
GenerateUserKeyPair(u) ==
  [publicKey |-> PublicKeyOf(u), privateKey |-> PrivateKeyOf(u), keyId |-> u]

\* a user document that carries the whole key pair
UserWriteKeyPair(keyPair) ==
  Write("users", {keyPair.publicKey, keyPair.privateKey}, {})

\* the user document of registerUser: publicKey and publicKeyId
UserWrite(keyPair) == Write("users", {keyPair.publicKey}, {})

\* registerUser: storePrivateKey is awaited and its result dropped, then the
\* user document is written and the user returned
RegisterUser(build, u, ok) ==
  /\ wire = NoWire
  /\ LET keyPair == GenerateUserKeyPair(u)
     IN  /\ StoreKey(build, u, keyPair.privateKey, ok)
         /\ wire' = [kind |-> "registered", user |-> u, stored |-> keyPair.privateKey]
         /\ written' = {UserWrite(keyPair)}
         /\ users' = users \cup {u}
         /\ keyOp' = [op |-> "register", build |-> build, user |-> u,
                      key |-> keyPair.privateKey, ok |-> ok,
                      before |-> StoredKeys(build)]
  /\ result' = NoResult
  /\ UNCHANGED <<groupVars, timerVars, sinkVars>>
  /\ UNCHANGED <<adminVars, directVars>>

\* createDirectConversation(currentUserId, otherUserId), no conversation of
\* the two existing yet
CreateDirectConversation(currentUserId, otherUserId) ==
  /\ wire = NoWire
  /\ GetUserById(currentUserId).found /\ GetUserById(otherUserId).found
  /\ LET participantKeys ==
           [u \in {currentUserId, otherUserId} |->
              [publicKey |-> GetUserById(u).publicKey, keyId |-> GetUserById(u).publicKeyId]]
     IN  /\ wire' = [kind |-> "conversation",
                     participants |-> {currentUserId, otherUserId},
                     participantKeys |-> participantKeys]
         /\ written' = {ConversationWrite(participantKeys)}
  /\ result' = NoResult
  /\ UNCHANGED <<groupVars, timerVars, sinkVars>>
  /\ UNCHANGED otherVars

\* sendDirectMessage(conversationId, senderId, plaintext): the recipient is the
\* other participant of the conversation, r the random draw
SendDirectMessage(senderId, plaintext, r) ==
  /\ wire.kind = "conversation"
  /\ \E id \in wire.participants : id # senderId
  /\ LET recipientId == CHOOSE id \in wire.participants : id # senderId
         recipientKey == wire.participantKeys[recipientId]
         encryptedContent == EncryptMessage(plaintext, recipientKey.publicKey, r)
     IN  /\ wire' = [kind |-> "direct", payload |-> encryptedContent,
                     plaintext |-> plaintext, sender |-> senderId,
                     recipient |-> recipientId, tampered |-> "no"]
         /\ written' = {MessageWrite("direct", encryptedContent)}
  /\ result' = NoResult
  /\ UNCHANGED <<groupVars, timerVars, sinkVars>>
  /\ UNCHANGED otherVars

\* decryptDirectMessageContent(encryptedContent, userId)
DecryptDirectMessageContent(userId, provider) ==
  /\ wire.kind = "direct"
  /\ result' = [op |-> "decryptDirect", by |-> userId, provider |-> provider,
                out |-> DecryptMessage(wire.payload, GetPrivateKey(userId), provider)]
  /\ UNCHANGED <<wire, written>>
  /\ UNCHANGED <<groupVars, timerVars, sinkVars>>
  /\ UNCHANGED otherVars

\* createGroup(creatorId, name, memberIds) from start to end; the group key
\* is the first draw of the key generator
CreateGroup(creatorId, memberIds) ==
  /\ wire = NoWire
  /\ LET conversation == CreateGroupConversation(creatorId, memberIds)
         b == CreateGroupKeyBundle(conversation.participantKeys, creatorId, 1)
     IN  /\ wire' = [kind |-> "bundle", keyBundle |-> b.keyBundle,
                     participants |-> conversation.participants,
                     participantKeys |-> conversation.participantKeys,
                     adminIds |-> conversation.adminIds,
                     groupKey |-> b.groupKey, edited |-> FALSE]
         /\ written' = {ConversationWrite(conversation.participantKeys),
                        DistributionWrite("conversations", b.keyBundle.encryptedKeys),
                        DistributionWrite("groupKeys", b.keyBundle.encryptedKeys)}
  /\ result' = NoResult
  /\ UNCHANGED <<groupVars, timerVars, sinkVars>>
  /\ UNCHANGED otherVars

\* getGroupKeyForConversation(conversation, userId) on the bundle in wire
GetGroupKeyForConversation(w, userId) ==
  IF userId \notin DOMAIN w.keyBundle.encryptedKeys THEN Null
  ELSE DecryptGroupKey(w.keyBundle.encryptedKeys[userId], GetPrivateKey(userId))

\* addMember(groupId, adminId, newMemberId) from start to end
AddMember(adminId, newMemberId) ==
  /\ wire.kind = "bundle" /\ ~wire.edited
  /\ adminId \in wire.adminIds
  /\ GetGroupKeyForConversation(wire, adminId) # Null
  /\ GetUserById(newMemberId).found
  /\ LET groupKey == GetGroupKeyForConversation(wire, adminId)
         newMember == GetUserById(newMemberId)
         encryptedKey == AddMemberToGroup(groupKey, newMember.publicKey)
         newKeys == [u \in {newMemberId} |->
                       [publicKey |-> newMember.publicKey, keyId |-> newMember.publicKeyId]]
     IN  /\ wire' = [wire EXCEPT
                       !.participants = @ \cup {newMemberId},
                       !.participantKeys = MapPut(@, newMemberId, newKeys[newMemberId]),
                       !.keyBundle.encryptedKeys = MapPut(@, newMemberId, encryptedKey),
                       !.edited = TRUE]
         /\ written' = {ConversationWrite(newKeys),
                        DistributionWrite("conversations",
                                          [u \in {newMemberId} |-> encryptedKey])}
  /\ result' = NoResult
  /\ UNCHANGED <<groupVars, timerVars, sinkVars>>
  /\ UNCHANGED otherVars

\* removeMember(groupId, adminId, memberIdToRemove) from start to end; the
\* rotated key is the next draw of the key generator
RemoveMember(adminId, memberIdToRemove) ==
  /\ wire.kind = "bundle" /\ ~wire.edited
  /\ adminId \in wire.adminIds
  /\ memberIdToRemove \notin wire.adminIds
  /\ LET b == RotateGroupKey(RemainingParticipantKeys(wire.participantKeys,
                                                      memberIdToRemove),
                             adminId, 2)
     IN  /\ wire' = [wire EXCEPT
                       !.participants = @ \ {memberIdToRemove},
                       !.participantKeys = MapDelete(@, memberIdToRemove),
                       !.keyBundle = b.keyBundle,
                       !.groupKey = b.groupKey,
                       !.edited = TRUE]
         /\ written' = {Write("conversations", {}, {}),
                        DistributionWrite("conversations", b.keyBundle.encryptedKeys),
                        DistributionWrite("groupKeys", b.keyBundle.encryptedKeys)}
  /\ result' = NoResult
  /\ UNCHANGED <<groupVars, timerVars, sinkVars>>
  /\ UNCHANGED otherVars

\* sendGroupMessage(conversationId, senderId, plaintext, groupKey, keyId) by a
\* member holding the group key
SendGroupMessage(senderId, plaintext, r) ==
  /\ wire.kind = "bundle"
  /\ GetGroupKeyForConversation(wire, senderId) # Null
  /\ LET groupKey == GetGroupKeyForConversation(wire, senderId)
         encryptedContent ==
           EncryptGroupMessage(plaintext, groupKey, wire.keyBundle.keyId, Iv(r))
     IN  /\ wire' = [kind |-> "group", keyBundle |-> wire.keyBundle,
                     participants |-> wire.participants,
                     payload |-> encryptedContent, plaintext |-> plaintext,
                     sender |-> senderId, tampered |-> "no"]
         /\ written' = {MessageWrite("group", encryptedContent)}
  /\ result' = NoResult
  /\ UNCHANGED <<groupVars, timerVars, sinkVars>>
  /\ UNCHANGED otherVars

\* decryptGroupMessageContent(encryptedContent, groupKey) by a user whose
\* getGroupKeyForConversation returned a key
DecryptGroupMessageContent(userId) ==
  /\ wire.kind = "group"
  /\ GetGroupKeyForConversation(wire, userId) # Null
  /\ result' = [op |-> "decryptGroup", by |-> userId, provider |-> "WebCrypto",
                out |-> DecryptGroupMessage(wire.payload,
                                            GetGroupKeyForConversation(wire, userId))]
  /\ UNCHANGED <<wire, written>>
  /\ UNCHANGED <<groupVars, timerVars, sinkVars>>
  /\ UNCHANGED otherVars

\* bytes that no key authenticates or unwraps
Forged(ct) ==
  IF ct.alg = "RSA-OAEP" THEN [ct EXCEPT !.owner = "nobody"]
                         ELSE [ct EXCEPT !.iv = Iv(0 - 1)]

\* the payload in the store is altered: another version tag, or other bytes in
\* its wrapped key or its data
TamperedPayload(payload, field) ==
  IF field = "version" THEN [payload EXCEPT !.version = "tt-e0"]
  ELSE IF field = "key"
    THEN [payload EXCEPT !.key = ArrayBufferToBase64(Forged(Base64ToArrayBuffer(@)))]
  ELSE [payload EXCEPT !.data = ArrayBufferToBase64(Forged(Base64ToArrayBuffer(@)))]

Tamper(field) ==
  /\ wire.kind \in {"direct", "group"}
  /\ wire.tampered = "no"
  /\ field = "key" => wire.kind = "direct"
  /\ wire' = [wire EXCEPT !.payload = TamperedPayload(@, field), !.tampered = field]
  /\ result' = NoResult
  /\ UNCHANGED written
  /\ UNCHANGED <<groupVars, timerVars, sinkVars>>
  /\ UNCHANGED otherVars

\* a key map is exported under a password (KeyBackupScreen)
ExportKeys(privateKeys, password, r) ==
  /\ wire = NoWire
  /\ LET bundle == ExportPrivateKeys(privateKeys, password, r)
     IN  /\ wire' = [kind |-> "backup", bundle |-> bundle,
                     keys |-> privateKeys, password |-> password,
                     draws |-> ExportDraws(password), tampered |-> "no"]
         /\ result' = [op |-> "export", out |-> bundle]
  /\ UNCHANGED written
  /\ UNCHANGED <<groupVars, timerVars, sinkVars>>
  /\ UNCHANGED otherVars

\* the exported bundle is imported under a password
ImportKeys(password) ==
  /\ wire.kind = "backup"
  /\ "error" \notin DOMAIN wire.bundle
  /\ result' = [op |-> "import", password |-> password,
                iterations |-> ImportIterations(wire.bundle),
                out |-> ImportPrivateKeys(wire.bundle, password)]
  /\ UNCHANGED <<wire, written>>
  /\ UNCHANGED <<groupVars, timerVars, sinkVars>>
  /\ UNCHANGED otherVars

\* iteration counts a stored bundle may carry in place of the exported one:
\* none (read as 0) or a lower one
OtherIterations == {0, 1000}

\* the stored bundle is altered: other bytes in ciphertext, iv or salt, or
\* another iteration count
TamperedBundle(bundle, field, n) ==
  IF field = "iterations" THEN [bundle EXCEPT !.iterations = n]
  ELSE IF field = "salt" THEN [bundle EXCEPT !.salt = ArrayBufferToBase64(Salt(0 - 1))]
  ELSE IF field = "iv" THEN [bundle EXCEPT !.iv = ArrayBufferToBase64(Iv(0 - 1))]
  ELSE [bundle EXCEPT !.ciphertext = ArrayBufferToBase64(Forged(Base64ToArrayBuffer(@)))]

TamperBundle(field, n) ==
  /\ wire.kind = "backup"
  /\ "error" \notin DOMAIN wire.bundle
  /\ wire.tampered = "no"
  /\ wire' = [wire EXCEPT !.bundle = TamperedBundle(@, field, n), !.tampered = field]
  /\ result' = NoResult
  /\ UNCHANGED written
  /\ UNCHANGED <<groupVars, timerVars, sinkVars>>
  /\ UNCHANGED otherVars

\* the key storage of one device: a user registers, keys are stored and deleted
KeysNext ==
  \/ \E build \in Builds, u \in KeyOwners, ok \in BOOLEAN : RegisterUser(build, u, ok)
  \/ \E build \in Builds, u \in KeyOwners, k \in BackedUpKeys, ok \in BOOLEAN :
       StorePrivateKey(build, u, k, ok)
  \/ \E build \in Builds, u \in KeyOwners : DeletePrivateKey(build, u)

CryptoInit ==
  /\ wire = NoWire
  /\ result = NoResult
  /\ written = {}

CryptoNext ==
  \/ \E build \in Builds, u \in Candidates, ok \in BOOLEAN : RegisterUser(build, u, ok)
  \/ \E a, b \in Candidates : CreateDirectConversation(a, b)
  \/ \E a \in Users, p \in Strings, r \in Draws : SendDirectMessage(a, p, r)
  \/ \E u \in Users, provider \in Providers : DecryptDirectMessageContent(u, provider)
  \/ \E ms \in SUBSET (Candidates \ {Creator}) : CreateGroup(Creator, ms)
  \/ \E u \in Candidates : AddMember(Creator, u)
  \/ \E u \in Candidates : RemoveMember(Creator, u)
  \/ \E u \in Users, p \in Strings, r \in Draws : SendGroupMessage(u, p, r)
  \/ \E u \in Users : DecryptGroupMessageContent(u)
  \/ \E field \in {"version", "key", "data"} : Tamper(field)
  \/ \E K \in KeyMaps, password \in Passwords, r \in Draws : ExportKeys(K, password, r)
  \/ \E password \in Passwords : ImportKeys(password)
  \/ \E field \in {"ciphertext", "iv", "salt", "iterations"}, n \in OtherIterations :
       TamperBundle(field, n)

(* ======================= properties of the group service ================ *)

\* two plaintexts a group message may carry
Plaintexts == {<<"a", "a">>, <<>>}

\* the keys the current groupKeyDistribution wraps
CurrentKeys ==
  {GetGroupKey(conv, u) : u \in DOMAIN conv.groupKeyDistribution}

\* a group message under key k with key id kid, as sendGroupMessage produces it
GroupMessage(p, k, kid) == EncryptGroupMessage(p, k, kid, Iv(0))

AllReturned ==
  /\ cg.pc = "done"
  /\ \A c \in CallIds : calls[c].pc \in {"idle", "done"}

\* C2: once all calls have completed, groupKeyDistribution has an entry for every
\* current participant and for no one else.
C2_DistributionMatchesParticipants ==
  AllReturned => DOMAIN conv.groupKeyDistribution = conv.participants

\* C3: there is no state in which removeMember has removed X from the participants
\* (and is still to rotate, or threw before rotating) while the current key is
\* one X holds.
C3_RemovalAtomicWithRotation ==
  \A c \in CallIds :
    (/\ calls[c].op = "removeMember"
     /\ \/ calls[c].pc = "rotate"
        \/ calls[c].pc = "failed" /\ calls[c].threwAt = "rotate")
    => ~(/\ calls[c].target \notin conv.participants
         /\ cache[calls[c].target] \cap CurrentKeys # {})

\* C4: when removeMember or leaveGroup returns, the current key is not one the
\* departed user was given a wrapped copy of.
C4_DepartureRotatesKey ==
  [][\A c \in CallIds :
       (/\ calls[c].op \in {"removeMember", "leaveGroup"}
        /\ InFlight(c) /\ calls'[c].pc = "done")
       => cache'[calls[c].target] \cap CurrentKeys' = {}
    ]_vars

\* C13: when an addMember call that no other call overlaps, for a user who was
\* no participant, returns, groupKeyId is unchanged, every entry
\* groupKeyDistribution had is unchanged, exactly one entry, the new member's, has
\* been added, and it unwraps to the key the existing members hold; no earlier
\* step of the call touches groupKeyId or groupKeyDistribution.
C13_AddMemberWrapsWithoutRotating ==
  [][\A c \in CallIds :
       /\ (/\ calls[c].op = "addMember" /\ calls[c].pc = "distribute"
           /\ calls'[c].pc = "done"
           /\ calls[c].alone /\ ~calls[c].wasParticipant)
          => LET X == calls[c].target
                 dist == conv.groupKeyDistribution
             IN  /\ conv'.groupKeyId = conv.groupKeyId
                 /\ \A u \in DOMAIN dist :
                       /\ u \in DOMAIN conv'.groupKeyDistribution
                       /\ conv'.groupKeyDistribution[u] = dist[u]
                 /\ DOMAIN conv'.groupKeyDistribution \ DOMAIN dist = {X}
                 /\ \A u \in DOMAIN dist :
                       GetGroupKey(conv', u) = GetGroupKey(conv', X)
                 /\ GetGroupKey(conv', X) \notin {Null, DecryptionFailed}
       /\ (/\ calls[c].op = "addMember" /\ InFlight(c) /\ calls[c].alone
           /\ calls[c].pc # "distribute" /\ calls'[c] # calls[c])
          => /\ conv'.groupKeyId = conv.groupKeyId
             /\ conv'.groupKeyDistribution = conv.groupKeyDistribution
    ]_vars

\* C25: once all the addMember and removeMember calls on a group have
\* completed, every entry of groupKeyDistribution wraps the key that
\* groupKeyId identifies.
C25_EntriesWrapCurrentKey ==
  (/\ AllReturned
   /\ \A c \in CallIds : calls[c].op # "leaveGroup")
    => \A u \in DOMAIN conv.groupKeyDistribution :
         GetGroupKey(conv, u) = [aes |-> conv.groupKeyId.id]

(* ==================== properties of the admin roles ==================== *)

\* C26: a group with at least one participant always has an admin who is a
\* current participant, whatever makeAdmin, removeAdmin, removeMember and
\* leaveGroup calls have succeeded on it.
C26_GroupKeepsParticipantAdmin ==
  (conv.exists /\ conv.participants # {})
    => conv.adminIds \cap conv.participants # {}

\* C27: in every state of a group, adminIds is a subset of participants: a
\* user removed by removeMember or gone by leaveGroup is no admin any more.
C27_AdminsAreParticipants ==
  conv.exists => conv.adminIds \subseteq conv.participants

(* ================ properties of the direct conversations =============== *)

\* C28: for any pair of users the store never holds two direct conversations
\* with the same two participants, and all createDirectConversation calls for
\* the pair, in either order of the two users, return the same conversation id.
C28_OneDirectConversationPerPair ==
  /\ \A d1, d2 \in directConvs : d1.participants = d2.participants => d1.id = d2.id
  /\ \A c, d \in DirectCallIds :
       (/\ dcalls[c].pc = "done" /\ dcalls[d].pc = "done"
        /\ {dcalls[c].currentUserId, dcalls[c].otherUserId}
             = {dcalls[d].currentUserId, dcalls[d].otherUserId})
       => dcalls[c].id = dcalls[d].id

(* ==================== properties of the key storage ==================== *)

\* C29: the key storage is a map keyed by user id: when storePrivateKey(u, k)
\* has succeeded getPrivateKey(u) returns k, and what getPrivateKey returns
\* for every other user is what it returned before the call.
C29_KeyStoreIsMapByUser ==
  (keyOp.op = "store" /\ keyOp.ok)
    => /\ GetStoredPrivateKey(keyOp.build, keyOp.user) = keyOp.key
       /\ \A u \in Candidates \ {keyOp.user} :
            GetStoredPrivateKey(keyOp.build, u) = keyOp.before[u]

\* C30: when registerUser has completed successfully and the user's public
\* key is published in the users collection, getPrivateKey(uid) is not null.
C30_RegisteredUserHasStoredKey ==
  (keyOp.op = "register" /\ keyOp.user \in users)
    => GetStoredPrivateKey(keyOp.build, keyOp.user) # Null

(* ======================= properties of the timers ====================== *)

\* the armed timeouts for message id that have neither fired nor been cleared
PendingFor(queue, id) == {t \in queue : t.id = id}

\* a call or firing leaves the registry (map, host queue, handle counter) as it was
RegistryUnchanged == UNCHANGED <<activeTimers, pending, nextHandle>>

\* C5: a startMessageTimer call for a message with expiresAt in the future that an
\* earlier call already registered arms nothing, invokes nothing and leaves the
\* map unchanged; exactly one timeout is armed for the id, it has not fired, and a
\* timeout that fires is gone from the host queue, so onExpire runs once for it.
C5_StartTwiceOneTimer ==
  [][/\ (/\ lastOp'.op = "start"
         /\ lastOp'.ids[1] \in DOMAIN activeTimers
         /\ msgs[lastOp'.ids[1]].expiresAt > now)
        => LET id == lastOp'.ids[1]
           IN  /\ RegistryUnchanged
               /\ lastOp'.invoked = <<>> /\ lastOp'.armed = {}
               /\ Cardinality(PendingFor(pending', id)) = 1
               /\ \A t \in PendingFor(pending', id) :
                     t.handle = activeTimers'[id] /\ t.handle \notin fired
               /\ GetActiveTimerCount' = GetActiveTimerCount
     /\ lastOp'.op = "fire"
        => /\ Cardinality(fired' \ fired) = 1
           /\ PendingFor(pending', lastOp'.ids[1]) = {}
           /\ \A t \in pending' : t.handle \notin fired'
    ]_vars

\* the second startMessageTimer call for a message has just returned: its timer,
\* armed by the first call, is the only one and has not fired
C5_Witness ==
  /\ lastOp.op = "start" /\ lastOp.armed = {} /\ lastOp.invoked = <<>>
  /\ lastOp.ids[1] \in DOMAIN activeTimers
  /\ msgs[lastOp.ids[1]].expiresAt > now
  /\ Cardinality(PendingFor(pending, lastOp.ids[1])) = 1
  /\ GetActiveTimerCount = 1

\* C6: cancelMessageTimer(id) with a timer armed for id (neither fired nor
\* cancelled) removes the entry and leaves no timeout for id that could still
\* fire, and a later startMessageTimer for the id arms a new timer; with no such
\* timer (never started, already fired, already cancelled) it changes nothing.
C6_CancelRemovesOrNoOp ==
  [][/\ lastOp'.op = "cancel"
        => LET id == lastOp'.ids[1]
           IN  IF PendingFor(pending, id) # {}
                 THEN /\ id \notin DOMAIN activeTimers'
                      /\ PendingFor(pending', id) = {}
                      /\ nextHandle' = nextHandle
                 ELSE RegistryUnchanged
     /\ (/\ lastOp'.op = "start"
         /\ PendingFor(pending, lastOp'.ids[1]) = {}
         /\ lastOp.op = "cancel" /\ lastOp.ids = lastOp'.ids
         /\ msgs[lastOp'.ids[1]].expiresAt > now)
        => /\ lastOp'.armed = {lastOp'.ids[1]}
           /\ Cardinality(PendingFor(pending', lastOp'.ids[1])) = 1
    ]_vars

\* C7: startMessageTimer on a message whose expiresAt is now or past, and that has
\* no timer armed, invokes onExpire before it returns, arms no timer and records
\* no entry.
C7_ImmediateExpiry ==
  [][(/\ lastOp'.op = "start"
      /\ msgs[lastOp'.ids[1]].expiresAt # NoExpiry
      /\ msgs[lastOp'.ids[1]].expiresAt <= now
      /\ PendingFor(pending, lastOp'.ids[1]) = {})
     => /\ lastOp'.invoked = lastOp'.ids
        /\ lastOp'.armed = {}
        /\ pending' = pending /\ nextHandle' = nextHandle
        /\ lastOp'.ids[1] \notin DOMAIN activeTimers'
    ]_vars

\* C8: when an armed timer fires, onExpire is invoked, the timeout is spent, and
\* after the firing no entry for the message id remains in the timer map.
C8_FiringRemovesEntry ==
  [][lastOp'.op = "fire"
     => /\ lastOp'.invoked = lastOp'.ids
        /\ Cardinality(fired' \ fired) = 1
        /\ lastOp'.ids[1] \notin DOMAIN activeTimers'
    ]_vars

C24_RegistryMatchesArmedTimers ==
  /\ DOMAIN activeTimers = {t.id : t \in pending}
  /\ GetActiveTimerCount = Cardinality(pending)

(* ===================== properties of the cleanup path ================== *)

\* the elements of a sequence
Range(seq) == {seq[i] : i \in DOMAIN seq}

\* seq lists elements of ids without repetition and in the order ids has them
OrderedSublist(seq, ids) ==
  \E f \in [DOMAIN seq -> DOMAIN ids] :
    /\ \A i \in DOMAIN seq : seq[i] = ids[f[i]]
    /\ \A i, j \in DOMAIN seq : i < j => f[i] < f[j]

\* C11: cleanupExpiredMessages returns, in the original order, exactly the
\* messages of the batch with no expiresAt or expiresAt > now, and calls
\* deleteMessage exactly once for each message of the batch with expiresAt <= now
\* and for no other message.
C11_CleanupPartitionsBatch ==
  [][lastOp'.op = "cleanup"
     => LET ids == lastOp'.ids
            live == {id \in Range(ids) :
                       msgs[id].expiresAt = NoExpiry \/ msgs[id].expiresAt > now}
        IN  /\ Range(lastOp'.valid) = live
            /\ OrderedSublist(lastOp'.valid, ids)
            /\ Range(lastOp'.deleted) = Range(ids) \ live
            /\ OrderedSublist(lastOp'.deleted, ids)
            /\ \E c \in ConversationIds :
                 /\ deleteRequested' =
                      deleteRequested \cup {<<c, id>> : id \in Range(ids) \ live}
                 /\ deleteInFlight' =
                      deleteInFlight \cup {<<c, id>> : id \in Range(ids) \ live}
    ]_vars

\* cleanupExpiredMessages has returned from a batch of two messages, the first
\* expired exactly now (deletion requested), the second still to expire (kept)
C11_Witness ==
  /\ lastOp.op = "cleanup" /\ Len(lastOp.ids) = 2
  /\ msgs[lastOp.ids[1]].expiresAt = now
  /\ msgs[lastOp.ids[2]].expiresAt > now
  /\ lastOp.deleted = <<lastOp.ids[1]>>
  /\ lastOp.valid = <<lastOp.ids[2]>>
  /\ \E c \in ConversationIds : <<c, lastOp.ids[1]>> \in deleteInFlight

\* C12: a rejected deleteMessage request throws nothing into any caller, changes
\* no list already returned, and issues no new request; no later call consults
\* the failure: every later cleanupExpiredMessages call passed the same message,
\* still expired, requests its deletion again.
C12_FailedDeletionSwallowedAndRepeated ==
  [][/\ lastOp'.op = "deleteRejected"
        => /\ ~lastOp'.threw
           /\ deleteInFlight' \subseteq deleteInFlight
           /\ deleteRequested' = deleteRequested
           /\ deletedDocs' = deletedDocs
           /\ UNCHANGED <<msgs, activeTimers, pending, nextHandle>>
     /\ deleteInFlight' \ deleteInFlight # {} => lastOp'.op = "cleanup"
     /\ lastOp'.op = "cleanup"
        => /\ ~lastOp'.threw
           /\ deleteFailed' = deleteFailed
           /\ \A i \in DOMAIN lastOp'.ids :
                LET id == lastOp'.ids[i]
                IN  (msgs[id].expiresAt # NoExpiry /\ msgs[id].expiresAt <= now)
                      => /\ id \in Range(lastOp'.deleted)
                         /\ id \notin Range(lastOp'.valid)
                         /\ \E c \in ConversationIds : <<c, id>> \in deleteInFlight'
    ]_vars

\* a deletion request for a message was rejected, and a later
\* cleanupExpiredMessages call passed the same message has requested it again
C12_Witness ==
  /\ lastOp.op = "cleanup"
  /\ \E c \in ConversationIds, id \in Range(lastOp.deleted) :
       /\ <<c, id>> \in deleteFailed
       /\ <<c, id>> \in deleteInFlight
       /\ <<c, id>> \notin deletedDocs

(* ===================== properties of the message codecs ================ *)

\* a string TextEncoder and TextDecoder carry unchanged: every surrogate is
\* paired and the first code unit is not the byte order mark
RECURSIVE HasLoneSurrogate(_)
HasLoneSurrogate(s) ==
  IF s = <<>> THEN FALSE
  ELSE IF Len(s) >= 2 /\ s[1] = "HI" /\ s[2] = "LO"
    THEN HasLoneSurrogate(SubSeq(s, 3, Len(s)))
  ELSE s[1] \in {"HI", "LO"} \/ HasLoneSurrogate(Tail(s))

IsScalarText(s) == ~HasLoneSurrogate(s) /\ (s = <<>> \/ s[1] # "FEFF")

\* a member decodes the group payload as the sender stored it
MemberDecoded ==
  /\ result.op = "decryptGroup"
  /\ wire.tampered = "no"

\* every one of the given members finds an entry in the bundle that unwraps
\* to the group key createGroup returned
EntriesUnwrap(members) ==
  \A m \in members :
    /\ m \in DOMAIN wire.keyBundle.encryptedKeys
    /\ DecryptGroupKey(wire.keyBundle.encryptedKeys[m], GetPrivateKey(m)) = wire.groupKey

\* C14 as stated: for a group created over member set M, every member of M
\* has an entry in encryptedKeys that unwraps to the same group key, and
\* decryptGroupMessage(encryptGroupMessage(p, groupKey, keyId), groupKey)
\* returns p for every plaintext p.
C14_GroupRoundTripAnyMemberAnyString ==
  /\ wire.kind = "bundle" => EntriesUnwrap(wire.participants)
  /\ MemberDecoded => result.out = [text |-> wire.plaintext]

\* C14 amended: for a group created over member set M, every member of M
\* that has a user record has an entry in encryptedKeys that unwraps to the
\* same group key, and decryptGroupMessage(encryptGroupMessage(p, groupKey,
\* keyId), groupKey) returns p for every plaintext p in which every surrogate
\* is paired and which does not begin with U+FEFF.
C14_GroupRoundTrip ==
  /\ wire.kind = "bundle" => EntriesUnwrap(wire.participants \cap Registered)
  /\ (MemberDecoded /\ IsScalarText(wire.plaintext))
       => result.out = [text |-> wire.plaintext]

C14_Witness ==
  /\ MemberDecoded
  /\ Cardinality(wire.participants \cap Registered) = 3
  /\ result.by # wire.sender
  /\ wire.plaintext = <<"HI", "LO">>
  /\ result.out = [text |-> <<"HI", "LO">>]

\* the recipient decodes the payload as the sender stored it
RecipientDecoded ==
  /\ result.op = "decryptDirect"
  /\ wire.tampered = "no"
  /\ result.by = wire.recipient

\* C15 as stated: for all plaintexts p and key pairs (pub, priv),
\* decryptMessage(encryptMessage(p, pub), priv) returns p.
C15_DirectRoundTripAnyString ==
  RecipientDecoded => result.out = [text |-> wire.plaintext]

\* C15 amended: for every plaintext p in which every surrogate is paired and
\* which does not begin with U+FEFF, and every key pair (pub, priv),
\* decryptMessage(encryptMessage(p, pub), priv) returns p.
C15_DirectRoundTrip ==
  (RecipientDecoded /\ IsScalarText(wire.plaintext))
    => result.out = [text |-> wire.plaintext]

C15_Witness ==
  /\ RecipientDecoded
  /\ wire.plaintext = <<"HI", "LO">>
  /\ result.out = [text |-> <<"HI", "LO">>]

\* C16: decrypting a direct message with a private key other than the
\* recipient's is rejected at the unwrap step and never returns a plaintext;
\* in particular the sender of a sendDirectMessage payload cannot decrypt it
\* with the sender's own private key.
C16_WrongKeyRejected ==
  (result.op = "decryptDirect" /\ result.by # wire.recipient)
    => /\ "text" \notin DOMAIN result.out
       /\ result.out = SubtleError(result.provider, "RSA-OAEP")

C16_Witness ==
  /\ result.op = "decryptDirect"
  /\ wire.tampered = "no"
  /\ result.by = wire.sender
  /\ "error" \in DOMAIN result.out

\* C17: a decoder (decryptMessage, decryptGroupMessage) never returns a
\* plaintext for a payload whose version field is not "tt-e1".
C17_OtherVersionRejected ==
  (result.op \in {"decryptDirect", "decryptGroup"} /\ wire.payload.version # "tt-e1")
    => "text" \notin DOMAIN result.out

\* the outcome of a decryptMessage call that fails at the unwrap step, and of
\* one that fails at the AES-GCM step
UnwrapFailure(provider) ==
  DecryptMessage(EncryptMessage(<<>>, PublicKeyOf("ann"), 1), PrivateKeyOf("bob"), provider)

AeadFailure(provider) ==
  DecryptMessage(TamperedPayload(EncryptMessage(<<>>, PublicKeyOf("ann"), 1), "data"),
                 PrivateKeyOf("ann"), provider)

\* C18: a decryptMessage call that fails surfaces the same outcome whether it
\* failed at the key-unwrap step or at the AEAD-decrypt step.
C18_FailureStepNotObservable ==
  (result.op = "decryptDirect" /\ "error" \in DOMAIN result.out)
    => /\ result.out = UnwrapFailure(result.provider)
       /\ result.out = AeadFailure(result.provider)

\* what a remote document may carry: public keys among its JWK fields, and
\* ciphertexts (wrapped keys, message data) and nonces among its base64 fields
OnlyPublicMaterial(w) ==
  /\ \A k \in w.jwk : k.kind = "public"
  /\ \A b \in w.base64 :
       LET c == Base64ToArrayBuffer(b)
       IN  "alg" \in DOMAIN c \/ "iv" \in DOMAIN c

\* C19: no write that registerUser, createDirectConversation, createGroup,
\* addMember, removeMember, sendDirectMessage or sendGroupMessage issues to
\* the remote store contains a private key or an unwrapped group key: only
\* public keys, wrapped keys and ciphertext are written.
C19_NoSecretWritten ==
  \A w \in written : OnlyPublicMaterial(w)

C19_Witness ==
  /\ wire.kind = "bundle"
  /\ wire.edited
  /\ Cardinality(written) = 3
  /\ \E w \in written : w.collection = "groupKeys" /\ Cardinality(w.base64) >= 2

\* C20: for any password of length >= 8 and any key map K,
\* importPrivateKeys(exportPrivateKeys(K, pwd), pwd) returns K.
C20_BackupRoundTrip ==
  (/\ result.op = "import"
   /\ wire.tampered = "no"
   /\ result.password = wire.password
   /\ Len(wire.password) >= 8)
    => result.out = [keys |-> wire.keys]

C20_Witness ==
  /\ result.op = "import"
  /\ wire.tampered = "no"
  /\ result.password = wire.password
  /\ wire.password = Password(8, "HI")
  /\ DOMAIN wire.keys = KeyIds
  /\ result.out = [keys |-> wire.keys]

InvalidPasswordOrCorruptBundle == BackupError("Invalid password or corrupted key bundle")

C22_ImportUsesStoredIterations ==
  result.op = "import" => result.iterations = wire.bundle.iterations

\* C23: exportPrivateKeys rejects every password shorter than 8, the empty one
\* included, before drawing a salt or nonce and without producing a bundle,
\* and produces a bundle for every password of length 8 or more.
C23_ShortPasswordRejected ==
  result.op = "export"
    => IF Len(wire.password) < 8
         THEN /\ result.out = BackupError("Password must be at least 8 characters")
              /\ wire.draws = 0
         ELSE /\ "ciphertext" \in DOMAIN result.out
              /\ "error" \notin DOMAIN result.out

C23_Witness ==
  /\ result.op = "export"
  /\ Len(wire.password) = 7
  /\ "error" \in DOMAIN result.out

Init ==
  /\ GroupInit /\ TimerInit /\ SinkInit /\ CryptoInit
  /\ AdminInit /\ DirectInit /\ KeyInit

SpecGroup == Init /\ [][GroupNext]_vars

SpecTimer == Init /\ [][TimerNext]_vars

SpecCleanup == Init /\ [][CleanupNext]_vars

SpecCrypto == Init /\ [][CryptoNext]_vars

SpecAdmin == Init /\ [][AdminNext]_vars

SpecDirect == Init /\ [][DirectNext]_vars

SpecKeys == Init /\ [][KeysNext]_vars

====
